---- MODULE Spec2Model ----
(***************************************************************************)
(* Planning engine of the Google Photos takeout album duplicate remover    *)
(* (src/main.py): folder indexing, duplicate resolution, pruning of        *)
(* untitled albums, album descriptors, album relocation and the replay of  *)
(* the task ledger.  Names are strings, so that prefixes, stems and the    *)
(* folder-name patterns are computed as the program computes them.         *)
(***************************************************************************)
EXTENDS Integers, Sequences, FiniteSets, TLC

VARIABLES
    disk,                  \* the takeout as it lies on disk when it is scanned
    keep_untitled_albums,  \* --keep-untitled-albums
    pc,                    \* position of main()
    failure,               \* exception that aborted the run, "none" otherwise
    takeout,               \* Takeout(photos_source, albums, special)
    task_ledger,           \* task_ledger of optimize_takeout
    fs,                    \* the tree the executor works on
    entries_in,            \* cluster_files_entries: its sorted argument
    entry_idx,             \* cluster_files_entries: entries consumed so far
    current_cluster,       \* cluster_files_entries: current_cluster ("" is None)
    clusters               \* cluster_files_entries: clusters

vars == <<disk, keep_untitled_albums, pc, failure, takeout, task_ledger, fs,
          entries_in, entry_idx, current_cluster, clusters>>

planVars == <<disk, keep_untitled_albums, pc, failure, takeout, task_ledger, fs>>

clusterVars == <<entries_in, entry_idx, current_cluster, clusters>>

(***************************************************************************)
(* Bounds of the model.                                                    *)
(***************************************************************************)
MaxFiles == 2      \* entries per folder
MaxEntries == 3    \* length of the entry list handed to cluster_files_entries

(***************************************************************************)
(* Strings.                                                                *)
(***************************************************************************)
Char(s, i) == SubSeq(s, i, i)

\* str.startswith
StartsWith(s, p) == Len(p) <= Len(s) /\ SubSeq(s, 1, Len(p)) = p

\* str.replace for single characters
RECURSIVE Replace(_, _, _)
Replace(s, old, new) ==
    IF Len(s) = 0 THEN ""
    ELSE (IF Char(s, 1) = old THEN new ELSE Char(s, 1))
         \o Replace(SubSeq(s, 2, Len(s)), old, new)

\* code points of the characters that occur, in their ASCII order
Alphabet == " ()._0123456789ABFGJNPRSTUVabcdefghijlmnoprstuvy"

OrdTable == [i \in 1..Len(Alphabet) |-> Char(Alphabet, i)]

Ord(c) == CHOOSE i \in 1..Len(Alphabet) : OrdTable[i] = c

\* s < t, as Python compares str
RECURSIVE StrLess(_, _)
StrLess(s, t) ==
    IF Len(t) = 0 THEN FALSE
    ELSE IF Len(s) = 0 THEN TRUE
    ELSE IF Char(s, 1) = Char(t, 1)
         THEN StrLess(SubSeq(s, 2, Len(s)), SubSeq(t, 2, Len(t)))
         ELSE Ord(Char(s, 1)) < Ord(Char(t, 1))

\* sorted(): the names of a finite set in ascending order
RECURSIVE Sorted(_)
Sorted(S) ==
    IF S = {} THEN <<>>
    ELSE LET m == CHOOSE x \in S : \A y \in S \ {x} : StrLess(x, y)
         IN <<m>> \o Sorted(S \ {m})

IsDigit(c) == c \in {"0", "1", "2", "3", "4", "5", "6", "7", "8", "9"}

\* str.rfind("."), 0 when there is none
LastDot(name) ==
    LET dots == {i \in 1..Len(name) : Char(name, i) = "."}
    IN IF dots = {} THEN 0 ELSE CHOOSE i \in dots : \A j \in dots : j <= i

\* pathlib's PurePath.stem: the name without its last suffix
Stem(name) ==
    LET i == LastDot(name)
    IN IF 1 < i /\ i < Len(name) THEN SubSeq(name, 1, i - 1) ELSE name

(***************************************************************************)
(* Module constants of main.py.                                            *)
(***************************************************************************)
album_folder_name == "ALBUMS"
special_folders == {"Bin", "Archive", "Failed Videos", album_folder_name}
metadata_file_name == "metadata.json"

\* source_folder_regex.match
source_folder_regex(name) ==
    /\ Len(name) = 16
    /\ SubSeq(name, 1, 12) = "Photos from "
    /\ \A i \in 13..16 : IsDigit(Char(name, i))

\* untitled_folder_regex.fullmatch
untitled_folder_regex(name) ==
    \/ name = "Untitled"
    \/ /\ Len(name) >= 11
       /\ SubSeq(name, 1, 9) = "Untitled("
       /\ Char(name, Len(name)) = ")"
       /\ \A i \in 10..(Len(name) - 1) : IsDigit(Char(name, i))

(***************************************************************************)
(* Python dicts keep insertion order: a dict is a sequence of items.       *)
(***************************************************************************)
Keys(d) == {d[i].k : i \in 1..Len(d)}

Has(d, key) == \E i \in 1..Len(d) : d[i].k = key

Get(d, key) == d[CHOOSE i \in 1..Len(d) : d[i].k = key].v

\* d[key] = value
Put(d, key, value) ==
    IF Has(d, key)
    THEN [i \in 1..Len(d) |-> IF d[i].k = key THEN [k |-> key, v |-> value] ELSE d[i]]
    ELSE Append(d, [k |-> key, v |-> value])

\* a Python for loop over seq, carrying the state the body changes
RECURSIVE ForEach(_, _, _)
ForEach(Body(_, _), st, seq) ==
    IF seq = <<>> THEN st ELSE ForEach(Body, Body(st, Head(seq)), Tail(seq))

\* d.pop(key) / del d[key]
Pop(d, key) == SelectSeq(d, LAMBDA it : it.k # key)

\* paths are sequences of components below the takeout root
PathName(p) == p[Len(p)]

WithName(p, new_name) == [p EXCEPT ![Len(p)] = new_name]

(***************************************************************************)
(* cluster_files_entries                                                   *)
(***************************************************************************)
\* the test of the loop body: does entry start a new cluster?
StartsNewCluster(cur, name) ==
    \/ cur = ""
    \/ ~StartsWith(name, cur)
    \/ ~StartsWith(name, Stem(cur))

\* one iteration of the loop over entries; st = [cur, clusters]
ClusterEntry(st, name, value) ==
    LET cur == IF StartsNewCluster(st.cur, name) THEN name ELSE st.cur
        old == IF Has(st.clusters, cur) THEN Get(st.clusters, cur) ELSE <<>>
    IN [cur |-> cur, clusters |-> Put(st.clusters, cur, Append(old, value))]

RECURSIVE ClusterLoop(_, _, _)
ClusterLoop(st, folder, names) ==
    IF names = <<>> THEN st
    ELSE ClusterLoop(ClusterEntry(st, Head(names), <<folder, Head(names)>>),
                     folder, Tail(names))

\* the clusters of a folder's sorted entries, keyed by base file name
cluster_files_entries(folder, names) ==
    ClusterLoop([cur |-> "", clusters |-> <<>>], folder, names).clusters

(***************************************************************************)
(* index_folder and open_gphotos_root_path.  The ValueErrors of the        *)
(* planner are named by what they report.                                  *)
(***************************************************************************)
Album(photo_files, other_files, name, is_source, is_special) ==
    [photo_files |-> photo_files, other_files |-> other_files, name |-> name,
     is_source |-> is_source, is_special |-> is_special]

NoAlbum == Album(<<>>, <<>>, "", FALSE, FALSE)

\* [failure, album]: the exception index_folder raises, or the Album it returns
index_folder(d, folder) ==
    LET ents == d[folder]
        is_source == source_folder_regex(folder)
        is_special == folder \in special_folders
        cl == cluster_files_entries(folder, Sorted(DOMAIN ents))
    IN IF \E n \in DOMAIN ents : ents[n].kind = "dir"
       THEN [failure |-> "InvalidFolderStructure", album |-> NoAlbum]
       ELSE IF \E n \in DOMAIN ents : ents[n].kind # "file"
       THEN [failure |-> "InvalidFolderStructure", album |-> NoAlbum]
       ELSE IF is_source /\ metadata_file_name \in DOMAIN ents
       THEN [failure |-> "MetadataInSourceFolder", album |-> NoAlbum]
       ELSE [failure |-> "none",
             album |-> Album(SelectSeq(cl, LAMBDA it : it.k # metadata_file_name),
                             SelectSeq(cl, LAMBDA it : it.k = metadata_file_name),
                             folder, is_source, is_special)]

EmptyTakeout == [photos_source |-> <<>>, albums |-> <<>>, special |-> <<>>]

\* the loop over root.iterdir(); st = [failure, albums]
RECURSIVE IndexLoop(_, _, _)
IndexLoop(st, d, order) ==
    IF order = <<>> \/ st.failure # "none" THEN st
    ELSE LET r == index_folder(d, Head(order))
         IN IF r.failure # "none"
            THEN [st EXCEPT !.failure = r.failure]
            ELSE IF r.album.photo_files = <<>> /\ r.album.other_files = <<>>
            THEN IndexLoop(st, d, Tail(order))
            ELSE IndexLoop([st EXCEPT !.albums = Put(@, r.album.name, r.album)],
                           d, Tail(order))

\* [failure, takeout] for the order in which iterdir() lists the folders
open_gphotos_root_path(d, order) ==
    LET st == IndexLoop([failure |-> "none", albums |-> <<>>], d, order)
        folder_special == SelectSeq(st.albums, LAMBDA it : it.v.is_special)
        folder_source == SelectSeq(st.albums,
                             LAMBDA it : it.v.is_source /\ ~it.v.is_special)
        folder_album == SelectSeq(st.albums,
                             LAMBDA it : ~it.v.is_source /\ ~it.v.is_special)
    IN IF st.failure # "none"
       THEN [failure |-> st.failure, takeout |-> EmptyTakeout]
       ELSE IF folder_source = <<>>
       THEN [failure |-> "NoSourceFolder", takeout |-> EmptyTakeout]
       ELSE [failure |-> "none",
             takeout |-> [photos_source |-> folder_source,
                          albums |-> folder_album,
                          special |-> folder_special]]

(***************************************************************************)
(* Task ledger records: (op, path, argument).                              *)
(***************************************************************************)
Task(op, path, arg) == [op |-> op, path |-> path, arg |-> arg]

\* FileCluster.prefix_rename: [paths, tasks] of the renamed cluster
prefix_rename(paths, prefix) ==
    LET new_path(p) == WithName(p, prefix \o PathName(p))
    IN [paths |-> [i \in 1..Len(paths) |-> new_path(paths[i])],
        tasks |-> [i \in 1..Len(paths) |->
                      Task("rename", paths[i], new_path(paths[i]))]]

(***************************************************************************)
(* merge_files_in_albums: for no albums at all it returns set(), otherwise *)
(* a dict from cluster key to the names of the folders holding it.         *)
(***************************************************************************)
merge_files_in_albums(albums) ==
    IF albums = <<>> THEN [type |-> "set", d |-> <<>>]
    ELSE LET add(files, album) ==
                 ForEach(LAMBDA f, it :
                             Put(f, it.k,
                                 Append(IF Has(f, it.k) THEN Get(f, it.k) ELSE <<>>,
                                        album.v.name)),
                         files, album.v.photo_files)
         IN [type |-> "dict", d |-> ForEach(add, <<>>, albums)]

\* compare_two_files: [failure, same]
compare_two_files(d, file1, file2) ==
    LET there(p) == Len(p) = 2 /\ p[1] \in DOMAIN d /\ p[2] \in DOMAIN d[p[1]]
    IN IF ~there(file1) \/ ~there(file2)
       THEN [failure |-> "FileNotFoundError", same |-> FALSE]
       ELSE [failure |-> "none",
             same |-> d[file1[1]][file1[2]].bytes = d[file2[1]][file2[2]].bytes]

\* takeout.<side>[folder].photo_files = photo_files
SetPhotoFiles(tk, side, folder, photo_files) ==
    [tk EXCEPT ![side] =
        Put(@, folder, [Get(@, folder) EXCEPT !.photo_files = photo_files])]

\* str.replace(" ", "_") + "__"
PrefixStr(folder) == Replace(folder, " ", "_") \o "__"

(***************************************************************************)
(* _rename_cluster on takeout.<side>[folder].photo_files.                  *)
(* st = [failure, takeout, ledger, album_files, source_files]              *)
(***************************************************************************)
rename_cluster(st, side, folder, prefix_str, duplicate_key, updated_key) ==
    IF st.failure # "none" THEN st
    ELSE
    LET photo_files == Get(st.takeout[side], folder).photo_files
    IN IF ~Has(photo_files, duplicate_key)
       THEN [st EXCEPT !.failure = "KeyError"]
       ELSE
       LET renamed == prefix_rename(Get(photo_files, duplicate_key), prefix_str)
           names == {PathName(renamed.paths[i]) : i \in 1..Len(renamed.paths)}
           ledger == st.ledger \o renamed.tasks
       IN IF names \cap Keys(st.album_files.d) # {}
             \/ names \cap Keys(st.source_files.d) # {}
          THEN [st EXCEPT !.failure = "RenameCollision", !.ledger = ledger]
          ELSE [st EXCEPT
                   !.ledger = ledger,
                   !.takeout = SetPhotoFiles(@, side, folder,
                                   Pop(Put(photo_files, updated_key, renamed.paths),
                                       duplicate_key))]

(***************************************************************************)
(* resolve_album_duplicate and resolve_duplicates.  set_order is the order *)
(* in which Python iterates the set unmatched_source.                      *)
(***************************************************************************)
resolve_album_duplicate(st, d, duplicate, set_order) ==
    IF st.failure # "none" THEN st
    ELSE IF st.album_files.type = "set" THEN [st EXCEPT !.failure = "TypeError"]
    ELSE
    LET \* album_files is a defaultdict: reading a missing key inserts it
        af == IF Has(st.album_files.d, duplicate) THEN st.album_files.d
              ELSE Put(st.album_files.d, duplicate, <<>>)
        album_list == Get(af, duplicate)
        source_list == Get(st.source_files.d, duplicate)
        base(side, folder) ==
            Get(Get(st.takeout[side], folder).photo_files, duplicate)[1]
        pairs == ForEach(LAMBDA acc, ka :
                             acc \o [i \in 1..Len(source_list) |->
                                        [ka |-> ka, ks |-> source_list[i]]],
                         <<>>, album_list)
        found == ForEach(LAMBDA m, pr :
                     IF m.failure # "none" THEN m
                     ELSE LET c == compare_two_files(d, base("albums", pr.ka),
                                                     base("photos_source", pr.ks))
                          IN IF c.failure # "none" THEN [m EXCEPT !.failure = c.failure]
                             ELSE IF c.same
                             THEN [m EXCEPT !.matches =
                                      Put(@, pr.ks,
                                          Append(IF Has(@, pr.ks) THEN Get(@, pr.ks)
                                                 ELSE <<>>, pr.ka))]
                             ELSE m,
                     [failure |-> "none", matches |-> <<>>], pairs)
        unmatched_source ==
            SelectSeq(set_order,
                      LAMBDA s : /\ \E i \in 1..Len(source_list) : source_list[i] = s
                                 /\ ~Has(found.matches, s))
        st1 == [st EXCEPT !.album_files.d = af, !.failure = found.failure]
        st2 == ForEach(LAMBDA s, it :
                   LET prefix_str == PrefixStr(it.k)
                       updated_key == prefix_str \o duplicate
                   IN ForEach(LAMBDA t, album :
                                  rename_cluster(t, "albums", album, prefix_str,
                                                 duplicate, updated_key),
                              rename_cluster(s, "photos_source", it.k, prefix_str,
                                             duplicate, updated_key),
                              it.v),
                   st1, found.matches)
        st3 == ForEach(LAMBDA s, unmatch :
                   rename_cluster(s, "photos_source", unmatch, PrefixStr(unmatch),
                                  duplicate, PrefixStr(unmatch) \o duplicate),
                   st2, unmatched_source)
    IN IF st3.failure # "none" THEN st3
       ELSE [st3 EXCEPT !.album_files.d = Pop(@, duplicate),
                        !.source_files.d = Pop(@, duplicate)]

\* a variant that takes every key of the source folders for a duplicate
source_duplicates_every_key(tk) ==
    LET sf == merge_files_in_albums(tk.photos_source).d
    IN [i \in 1..Len(sf) |-> sf[i].k]

\* the keys of source_files held by more than one source folder, in dict order
source_duplicates(tk) ==
    LET sf == merge_files_in_albums(tk.photos_source).d
        dup == SelectSeq(sf, LAMBDA it : Len(it.v) > 1)
    IN [i \in 1..Len(dup) |-> dup[i].k]

resolve_duplicates(tk, ledger, d, set_order) ==
    ForEach(LAMBDA st, dup : resolve_album_duplicate(st, d, dup, set_order),
            [failure |-> "none", takeout |-> tk, ledger |-> ledger,
             album_files |-> merge_files_in_albums(tk.albums),
             source_files |-> merge_files_in_albums(tk.photos_source)],
            source_duplicates(tk))

(***************************************************************************)
(* remove_untitled_albums, replace_album_files_with_yaml_metadata and      *)
(* move_into_album_folder: each returns [takeout, ledger].                 *)
(***************************************************************************)
\* every cluster key of the album is a key of some source folder
\* a variant that is satisfied by one key found in a source folder
all_available_some_key(tk, album) ==
    \E key \in Keys(album.photo_files) :
        \E i \in 1..Len(tk.photos_source) :
            Has(tk.photos_source[i].v.photo_files, key)

all_available(tk, album) ==
    \A key \in Keys(album.photo_files) :
        \E i \in 1..Len(tk.photos_source) :
            Has(tk.photos_source[i].v.photo_files, key)

remove_untitled_albums(tk, ledger) ==
    LET to_delete == SelectSeq(tk.albums,
                         LAMBDA it : /\ untitled_folder_regex(it.v.name)
                                     /\ all_available(tk, it.v))
    IN ForEach(LAMBDA st, it :
                   [takeout |-> [st.takeout EXCEPT !.albums = Pop(@, it.v.name)],
                    ledger |-> Append(st.ledger, Task("delete", <<it.v.name>>, <<>>))],
               [takeout |-> tk, ledger |-> ledger], to_delete)

\* the paths of all clusters of photo_files, cluster by cluster
AllPaths(photo_files) == ForEach(LAMBDA acc, it : acc \o it.v, <<>>, photo_files)

replace_album_files_with_yaml_metadata(tk, ledger) ==
    ForEach(LAMBDA st, it :
                LET paths == AllPaths(it.v.photo_files)
                    data == [album |-> it.v.name,
                             photo_files |-> [i \in 1..Len(paths) |->
                                                 PathName(paths[i])]]
                IN [st EXCEPT !.ledger =
                       Append(@, Task("create", <<it.v.name, "album.yaml">>, data))
                       \o [i \in 1..Len(paths) |-> Task("delete", paths[i], <<>>)]],
            [takeout |-> tk, ledger |-> ledger], tk.albums)

move_into_album_folder(tk, ledger) ==
    ForEach(LAMBDA st, it :
                IF ~it.v.is_special
                THEN [st EXCEPT !.ledger =
                         Append(@, Task("rename", <<it.v.name>>,
                                        <<album_folder_name, it.v.name>>))]
                ELSE st,
            [takeout |-> tk,
             ledger |-> Append(ledger, Task("create_dir", <<album_folder_name>>, <<>>))],
            tk.albums)

(***************************************************************************)
(* execute_task_ledger.  The tree is [files, dirs], two sets of paths; the *)
(* root <<>> is a directory.  A step returns [fs, failure].                *)
(***************************************************************************)
Parent(p) == SubSeq(p, 1, Len(p) - 1)

IsUnder(p, dir) == Len(p) > Len(dir) /\ SubSeq(p, 1, Len(dir)) = dir

IsDir(t, p) == p = <<>> \/ p \in t.dirs

Exists(t, p) == IsDir(t, p) \/ p \in t.files

\* the tree as scanned: every folder of the root with its entries
TreeOf(d) ==
    [files |-> {<<f, n>> : f \in DOMAIN d, n \in UNION {DOMAIN d[g] : g \in DOMAIN d}}
               \cap UNION {{<<f, n>> : n \in {m \in DOMAIN d[f] : d[f][m].kind # "dir"}}
                            : f \in DOMAIN d},
     dirs |-> {<<f>> : f \in DOMAIN d}
              \cup UNION {{<<f, n>> : n \in {m \in DOMAIN d[f] : d[f][m].kind = "dir"}}
                           : f \in DOMAIN d}]

\* delete(path): recursive for a directory, unlink otherwise
exec_delete(t, path) ==
    IF IsDir(t, path)
    THEN [fs |-> [files |-> {q \in t.files : ~IsUnder(q, path)},
                  dirs |-> {q \in t.dirs : q # path /\ ~IsUnder(q, path)}],
          failure |-> "none"]
    ELSE IF path \in t.files
    THEN [fs |-> [t EXCEPT !.files = @ \ {path}], failure |-> "none"]
    ELSE [fs |-> t, failure |-> "FileNotFoundError"]

\* create(path, content): open(path, "w")
exec_create(t, path) ==
    IF ~IsDir(t, Parent(path)) THEN [fs |-> t, failure |-> "FileNotFoundError"]
    ELSE IF path \in t.dirs THEN [fs |-> t, failure |-> "IsADirectoryError"]
    ELSE [fs |-> [t EXCEPT !.files = @ \cup {path}], failure |-> "none"]

\* create_dir(path): mkdir(parents=True, exist_ok=True)
exec_create_dir(t, path) ==
    LET chain == {SubSeq(path, 1, i) : i \in 1..Len(path)}
    IN IF chain \cap t.files # {} THEN [fs |-> t, failure |-> "FileExistsError"]
       ELSE [fs |-> [t EXCEPT !.dirs = @ \cup chain], failure |-> "none"]

\* rename(old_path, new_path): os.rename, which replaces an existing file
exec_rename(t, old, new) ==
    LET moved(q) == new \o SubSeq(q, Len(old) + 1, Len(q))
    IN IF ~Exists(t, old) \/ ~IsDir(t, Parent(new))
       THEN [fs |-> t, failure |-> "FileNotFoundError"]
       ELSE IF old \in t.files
       THEN IF new \in t.dirs THEN [fs |-> t, failure |-> "IsADirectoryError"]
            ELSE [fs |-> [t EXCEPT !.files = (@ \ {old}) \cup {new}],
                  failure |-> "none"]
       ELSE IF new \in t.files THEN [fs |-> t, failure |-> "NotADirectoryError"]
       ELSE IF \E q \in t.files \cup t.dirs : IsUnder(q, new)
       THEN [fs |-> t, failure |-> "OSError"]
       ELSE [fs |-> [files |-> {q \in t.files : ~IsUnder(q, old)}
                               \cup {moved(q) : q \in {r \in t.files : IsUnder(r, old)}},
                     dirs |-> {q \in t.dirs : q # old /\ ~IsUnder(q, old)}
                              \cup {moved(q) : q \in {r \in t.dirs :
                                                          r = old \/ IsUnder(r, old)}}],
             failure |-> "none"]

\* actions[task[0]](*task[1:])
exec_task(t, task) ==
    IF task.op = "delete" THEN exec_delete(t, task.path)
    ELSE IF task.op = "create" THEN exec_create(t, task.path)
    ELSE IF task.op = "create_dir" THEN exec_create_dir(t, task.path)
    ELSE exec_rename(t, task.path, task.arg)

\* the loop over the ledger; the first exception ends it
execute_task_ledger(t, ledger, dry_run) ==
    IF dry_run THEN [fs |-> t, failure |-> "none"]
    ELSE ForEach(LAMBDA st, task :
                     IF st.failure # "none" THEN st ELSE exec_task(st.fs, task),
                 [fs |-> t, failure |-> "none"], ledger)

(***************************************************************************)
(* The takeouts the model scans.  Each holds the two source folders and    *)
(*  - one further folder, every folder with at most MaxFiles files, or     *)
(*  - one further folder, every folder with at most one entry of any kind  *)
(*    (a subfolder, a dangling link, a metadata file in a source folder    *)
(*    among them), or                                                      *)
(*  - two album folders, every folder with at most one file.               *)
(* The program reads file contents only to compare an album copy with a    *)
(* source copy of the same name, so two byte strings give every pattern of *)
(* equal and different copies, with the first source folder's copy as x.   *)
(***************************************************************************)
FirstSource == "Photos from 2020"
SourceFolders == {FirstSource, "Photos from 2021"}
OtherFolders == {"Vacation", "Untitled(3)", "Bin"}
UntitledLike == {"Untitled", "Untitled()"}
MediaNames == {"a.jpg", "Photos_from_2020__a.jpg"}
SidecarNames == {"a.jpg.json"}
DirNames == {"sub"}
LinkNames == {"lnk"}
FileNames == MediaNames \cup SidecarNames \cup {metadata_file_name}

File(bytes) == [kind |-> "file", bytes |-> bytes]

EntryValues(folder, n) ==
    IF n \in DirNames THEN {[kind |-> "dir", bytes |-> ""]}
    ELSE IF n \in LinkNames THEN {[kind |-> "other", bytes |-> ""]}
    ELSE IF n \notin MediaNames THEN {File("j")}
    ELSE IF folder = FirstSource THEN {File("x")}
    ELSE {File("x"), File("y")}

\* what folder may hold: at most max entries, named in names
FolderContents(folder, names, max) ==
    UNION {{c \in [E -> UNION {EntryValues(folder, n) : n \in E}] :
               \A n \in E : c[n] \in EntryValues(folder, n)}
           : E \in {F \in SUBSET names : Cardinality(F) <= max}}

\* the takeouts with the given folders, each folder f holding names(f), at most max
RECURSIVE TakeoutsOf(_, _, _)
TakeoutsOf(folders, names(_), max) ==
    IF folders = {} THEN {<<>>}
    ELSE LET f == CHOOSE g \in folders : TRUE
             rest == TakeoutsOf(folders \ {f}, names, max)
         IN {[g \in folders |-> IF g = f THEN c ELSE t[g]] :
                t \in rest, c \in FolderContents(f, names(f), max)}

FullTakeouts ==
    UNION {TakeoutsOf(SourceFolders \cup {x},
                      LAMBDA f : IF f \in SourceFolders
                                 THEN MediaNames \cup SidecarNames ELSE FileNames,
                      MaxFiles)
           : x \in OtherFolders}

SmallTakeouts ==
    UNION {TakeoutsOf(SourceFolders \cup {x}, LAMBDA f : FileNames \cup DirNames \cup LinkNames, 1)
           : x \in OtherFolders \cup UntitledLike}

TwoAlbumTakeouts ==
    TakeoutsOf(SourceFolders \cup {"Vacation", "Untitled(3)"},
               LAMBDA f : MediaNames \cup SidecarNames, 1)

Takeouts == FullTakeouts \cup SmallTakeouts \cup TwoAlbumTakeouts

\* the orders in which iterdir() may list, or a set may iterate, the names S
Orders(S) ==
    {o \in [1..Cardinality(S) -> S] : \A i, j \in 1..Cardinality(S) :
                                         o[i] = o[j] => i = j}

\* the entry lists handed to cluster_files_entries: sorted, as index_folder sorts
ClusterNames == {"a", "a.jpg", "a.jpg.json", "a.json", "b.jpg", metadata_file_name}

ClusterFolder == "Vacation"

EntryLists ==
    {Sorted(E) : E \in {F \in SUBSET ClusterNames : Cardinality(F) <= MaxEntries}}

(***************************************************************************)
(* main(): one action per stage.                                           *)
(***************************************************************************)
Init ==
    /\ disk \in Takeouts
    /\ keep_untitled_albums = FALSE
    /\ pc = "open_gphotos_root_path"
    /\ failure = "none"
    /\ takeout = EmptyTakeout
    /\ task_ledger = <<>>
    /\ fs = TreeOf(disk)
    /\ entries_in = <<>>
    /\ entry_idx = 0
    /\ current_cluster = ""
    /\ clusters = <<>>

OpenRoot ==
    /\ pc = "open_gphotos_root_path"
    /\ \E order \in Orders(DOMAIN disk) :
          LET r == open_gphotos_root_path(disk, order)
          IN /\ failure' = r.failure
             /\ takeout' = r.takeout
             /\ pc' = IF r.failure = "none" THEN "resolve_duplicates" ELSE "aborted"
    /\ UNCHANGED <<disk, keep_untitled_albums, task_ledger, fs, clusterVars>>

ResolveDuplicates ==
    /\ pc = "resolve_duplicates"
    /\ \E set_order \in Orders(Keys(takeout.photos_source)) :
          LET r == resolve_duplicates(takeout, <<>>, disk, set_order)
          IN /\ failure' = r.failure
             /\ takeout' = r.takeout
             /\ task_ledger' = r.ledger
             /\ pc' = IF r.failure = "none" THEN "remove_untitled_albums" ELSE "aborted"
    /\ UNCHANGED <<disk, keep_untitled_albums, fs, clusterVars>>

\* keep is the value of --keep-untitled-albums, read here for the first time
RemoveUntitledAlbums(keep) ==
    /\ pc = "remove_untitled_albums"
    /\ keep_untitled_albums' = keep
    /\ LET r == IF keep
                THEN [takeout |-> takeout, ledger |-> task_ledger]
                ELSE remove_untitled_albums(takeout, task_ledger)
       IN takeout' = r.takeout /\ task_ledger' = r.ledger
    /\ pc' = "replace_album_files_with_yaml_metadata"
    /\ UNCHANGED <<disk, failure, fs, clusterVars>>

ReplaceAlbumFiles ==
    /\ pc = "replace_album_files_with_yaml_metadata"
    /\ task_ledger' = replace_album_files_with_yaml_metadata(takeout, task_ledger).ledger
    /\ pc' = "move_into_album_folder"
    /\ UNCHANGED <<disk, keep_untitled_albums, failure, takeout, fs, clusterVars>>

MoveIntoAlbumFolder ==
    /\ pc = "move_into_album_folder"
    /\ task_ledger' = move_into_album_folder(takeout, task_ledger).ledger
    /\ pc' = "execute_task_ledger"
    /\ UNCHANGED <<disk, keep_untitled_albums, failure, takeout, fs, clusterVars>>

ExecuteTaskLedger(dry_run) ==
    /\ pc = "execute_task_ledger"
    /\ LET r == execute_task_ledger(fs, task_ledger, dry_run)
       IN /\ fs' = r.fs
          /\ failure' = r.failure
          /\ pc' = IF r.failure = "none" THEN "done" ELSE "execution_aborted"
    /\ UNCHANGED <<disk, keep_untitled_albums, takeout, task_ledger, clusterVars>>

Next ==
    \/ OpenRoot
    \/ ResolveDuplicates
    \/ \E keep \in BOOLEAN : RemoveUntitledAlbums(keep)
    \/ ReplaceAlbumFiles
    \/ MoveIntoAlbumFolder
    \/ \E dry_run \in BOOLEAN : ExecuteTaskLedger(dry_run)

Spec == Init /\ [][Next]_vars

(***************************************************************************)
(* cluster_files_entries on its own, one entry of the loop per step.       *)
(***************************************************************************)
ClusterInit ==
    /\ entries_in \in EntryLists
    /\ entry_idx = 0
    /\ current_cluster = ""
    /\ clusters = <<>>
    /\ disk = [f \in {} |-> <<>>]
    /\ keep_untitled_albums = FALSE
    /\ pc = "cluster_files_entries"
    /\ failure = "none"
    /\ takeout = EmptyTakeout
    /\ task_ledger = <<>>
    /\ fs = [files |-> {}, dirs |-> {}]

ClusterStep ==
    /\ pc = "cluster_files_entries"
    /\ entry_idx < Len(entries_in)
    /\ LET entry == entries_in[entry_idx + 1]
           st == ClusterEntry([cur |-> current_cluster, clusters |-> clusters],
                              entry, <<ClusterFolder, entry>>)
       IN /\ current_cluster' = st.cur
          /\ clusters' = st.clusters
    /\ entry_idx' = entry_idx + 1
    /\ UNCHANGED <<entries_in, planVars>>

ClusterNext == ClusterStep

SpecCluster == ClusterInit /\ [][ClusterNext]_vars

(***************************************************************************)
(* What the properties below speak about.                                  *)
(***************************************************************************)
Sides == {"photos_source", "albums"}

SourceNames == Keys(takeout.photos_source)

AlbumNames == Keys(takeout.albums)

\* the clusters of folder f as they were scanned
Scanned(f) == index_folder(disk, f).album.photo_files

\* the keys that more than one source folder held when resolution started
DupKeys ==
    {K \in UNION {Keys(Scanned(S)) : S \in SourceNames} :
        Cardinality({S \in SourceNames : K \in Keys(Scanned(S))}) > 1}

\* prefix(S), written out
ExpectedPrefix(S) ==
    IF S = "Photos from 2020" THEN "Photos_from_2020__"
    ELSE IF S = "Photos from 2021" THEN "Photos_from_2021__"
    ELSE "?"

Prefixed(paths, prefix) ==
    [i \in 1..Len(paths) |-> <<paths[i][1], prefix \o paths[i][2]>>]

Count(ledger, task) == Cardinality({i \in 1..Len(ledger) : ledger[i] = task})

\* the base files of A's and S's clusters for K are byte-identical
SameBytes(A, S, K) ==
    disk[A][Get(Scanned(A), K)[1][2]].bytes = disk[S][Get(Scanned(S), K)[1][2]].bytes

ResolutionEnded == pc \in {"remove_untitled_albums", "aborted"}

\* C1: after resolve_duplicates finishes, no key that more than one source
\* folder held when resolution started is a key of photo_files of any source
\* folder or of any album folder.
C1_OriginalKeyAbsent ==
    pc = "remove_untitled_albums" =>
        \A K \in DupKeys : \A side \in Sides : \A i \in 1..Len(takeout[side]) :
            ~Has(takeout[side][i].v.photo_files, K)

\* C2: for every key K held by two or more source folders, whatever album
\* folders there are, planning completes, the ledger holds exactly one record
\* Rename(S/p.name, S/(prefix(S) + p.name)) for each source folder S holding
\* K and each path p of its cluster, and S stores the cluster under
\* prefix(S) + K.  (Runs that end in the rename collision of C4 are left out.)
C2_SourceCopiesRenamed ==
    (ResolutionEnded /\ DupKeys # {} /\ failure # "RenameCollision") =>
        /\ failure = "none"
        /\ \A K \in DupKeys : \A S \in {T \in SourceNames : K \in Keys(Scanned(T))} :
              LET old == Get(Scanned(S), K)
                  new == Prefixed(old, ExpectedPrefix(S))
                  now == Get(takeout.photos_source, S).photo_files
              IN /\ \A i \in 1..Len(old) :
                        Count(task_ledger, Task("rename", old[i], new[i])) = 1
                 /\ Has(now, ExpectedPrefix(S) \o K)
                 /\ Get(now, ExpectedPrefix(S) \o K) = new

\* C3: for every source-duplicate key K and every album A and source S that
\* both hold K with byte-identical base files, whatever the other source
\* copies are, planning completes, the ledger renames every path of A's
\* cluster inside A by prefixing prefix(S), and A stores the cluster under
\* prefix(S) + K; an album copy identical to no source copy gets no Rename
\* record.  (Runs that end in the rename collision of C4 are left out.)
C3_MatchedAlbumRenamed ==
    (ResolutionEnded /\ failure # "RenameCollision") =>
        \A K \in DupKeys : \A A \in {B \in AlbumNames : K \in Keys(Scanned(B))} :
            LET old == Get(Scanned(A), K)
                holders == {S \in SourceNames : K \in Keys(Scanned(S))}
                same == {S \in holders : SameBytes(A, S, K)}
                now == Get(takeout.albums, A).photo_files
            IN /\ \A S \in same :
                      LET new == Prefixed(old, ExpectedPrefix(S))
                      IN /\ failure = "none"
                         /\ \A i \in 1..Len(old) :
                                Count(task_ledger, Task("rename", old[i], new[i])) = 1
                         /\ Has(now, ExpectedPrefix(S) \o K)
                         /\ Get(now, ExpectedPrefix(S) \o K) = new
               /\ same = {} =>
                      \A i \in 1..Len(task_ledger) :
                          task_ledger[i].op = "rename" =>
                              \A j \in 1..Len(old) : task_ledger[i].path # old[j]

\* C4: a disambiguating rename never replaces an existing cluster: a run of
\* resolve_duplicates that does not fail with a rename collision leaves every
\* folder with as many clusters as it had (each rename re-keys one cluster; a
\* rename that stored its cluster over an existing key would lose one).
C4_RenameNeverReplaces ==
    [][(pc = "resolve_duplicates" /\ failure' = "none") =>
          \A side \in Sides : \A i \in 1..Len(takeout[side]) :
              Len(takeout'[side][i].v.photo_files)
                  = Len(takeout[side][i].v.photo_files)]_vars

\* C5: in cluster_files_entries, an entry after the first whose name starts
\* with the current cluster's base file name or with its stem is appended to
\* the current cluster and starts no cluster of its own.
C5_PrefixedEntryJoinsCluster ==
    [][(entry_idx' = entry_idx + 1 /\ entry_idx >= 1) =>
          LET e == entries_in[entry_idx + 1]
          IN (StartsWith(e, current_cluster) \/ StartsWith(e, Stem(current_cluster)))
             => /\ current_cluster' = current_cluster
                /\ ~Has(clusters', e)
                /\ LET c == Get(clusters', current_cluster)
                   IN c[Len(c)] = <<ClusterFolder, e>>]_vars

\* the album folders of the scanned takeout
AlbumsOnDisk ==
    {f \in DOMAIN disk \ (SourceFolders \cup special_folders) : DOMAIN disk[f] # {}}

\* the folder names of the model that are Untitled or Untitled(<digits>)
UntitledNames == {"Untitled", "Untitled(3)"}

\* every cluster key of album folder A is a key of some source folder
Redundant(A) ==
    \A K \in Keys(Scanned(A)) : \E S \in SourceNames : K \in Keys(Scanned(S))

\* no key in more than one source folder, no untitled album that is redundant
AlreadyResolved ==
    /\ DupKeys = {}
    /\ \A A \in AlbumsOnDisk \cap UntitledNames : ~Redundant(A)

\* C6 as stated: for a takeout in which no key occurs in more than one source
\* folder and no untitled album is redundant, optimize_takeout returns an
\* empty ledger.
C6_EmptyLedger ==
    (pc = "execute_task_ledger" /\ AlreadyResolved) => task_ledger = <<>>

\* C6 as amended: for such a takeout the ledger holds no Rename of a file and
\* no Delete of a folder, but it is not empty: it holds exactly CreateDir of
\* ALBUMS and, for every album folder, the Create of its descriptor, one
\* Delete per photo file and the Rename of the folder into ALBUMS.
C6_OnlyDescriptorsAndMoves ==
    (pc = "execute_task_ledger" /\ AlreadyResolved) =>
        LET photos(A) == DOMAIN disk[A] \ {metadata_file_name}
            expected ==
                {Task("create_dir", <<"ALBUMS">>, <<>>)}
                \cup {Task("rename", <<A>>, <<"ALBUMS", A>>) : A \in AlbumsOnDisk}
                \cup UNION {{Task("delete", <<A, n>>, <<>>) : n \in photos(A)}
                            : A \in AlbumsOnDisk}
            creates == {i \in 1..Len(task_ledger) : task_ledger[i].op = "create"}
        IN /\ task_ledger # <<>>
           /\ \A t \in expected : Count(task_ledger, t) = 1
           /\ \A i \in 1..Len(task_ledger) :
                  task_ledger[i] \in expected \/ i \in creates
           /\ \A A \in AlbumsOnDisk :
                  Cardinality({i \in creates :
                      task_ledger[i].path = <<A, "album.yaml">>}) = 1
           /\ Cardinality(creates) = Cardinality(AlbumsOnDisk)

\* C6 witness: an already resolved takeout with an album that holds a photo
\* has been planned.
C6_Witness ==
    /\ pc = "execute_task_ledger"
    /\ AlreadyResolved
    /\ \E A \in AlbumsOnDisk : DOMAIN disk[A] \ {metadata_file_name} # {}
    /\ Len(task_ledger) >= 4

\* C7: planning returns a ledger or aborts with one of the four named
\* failures; no other failure ends it.
C7_OnlyNamedFailures ==
    pc = "aborted" =>
        failure \in {"InvalidFolderStructure", "MetadataInSourceFolder",
                     "NoSourceFolder", "RenameCollision"}

\* C8: with pruning enabled, an album named Untitled or Untitled(<digits>) is
\* removed from takeout.albums and a Delete of its folder is scheduled if and
\* only if every photo cluster key it holds when the pruner runs is a key of
\* some source folder; otherwise it stays and no Delete of its folder is
\* scheduled.  Albums with any other name are never pruned.
C8_PrunedIffRedundant ==
    [][(pc = "remove_untitled_albums" /\ ~keep_untitled_albums') =>
          \A i \in 1..Len(takeout.albums) :
              LET A == takeout.albums[i].k
                  held == Keys(takeout.albums[i].v.photo_files)
                  redundant ==
                      \A K \in held : \E j \in 1..Len(takeout.photos_source) :
                          K \in Keys(takeout.photos_source[j].v.photo_files)
                  removed == A \notin Keys(takeout'.albums)
                  scheduled ==
                      \E n \in (Len(task_ledger) + 1)..Len(task_ledger') :
                          task_ledger'[n] = Task("delete", <<A>>, <<>>)
              IN IF A \in UntitledNames /\ redundant
                 THEN removed /\ scheduled
                 ELSE ~removed /\ ~scheduled /\ takeout'.albums[
                          CHOOSE n \in 1..Len(takeout'.albums) :
                              takeout'.albums[n].k = A] = takeout.albums[i]]_vars

\* C8 witness: the pruner has run with pruning enabled on a takeout with a
\* redundant untitled album and another album, removed the one, kept the other.
C8_Witness ==
    /\ pc = "replace_album_files_with_yaml_metadata"
    /\ ~keep_untitled_albums
    /\ "Untitled(3)" \in AlbumsOnDisk
    /\ Scanned("Untitled(3)") # <<>>
    /\ AlbumNames = {"Vacation"}
    /\ Count(task_ledger, Task("delete", <<"Untitled(3)">>, <<>>)) = 1

\* C9: when planning completes, every photo cluster key of every album that
\* remains (its files are listed in the descriptor and scheduled for Delete)
\* is a cluster key of exactly one source folder.
C9_DescriptorResolves ==
    pc = "execute_task_ledger" =>
        \A i \in 1..Len(takeout.albums) :
            \A K \in Keys(takeout.albums[i].v.photo_files) :
                Cardinality({j \in 1..Len(takeout.photos_source) :
                    Has(takeout.photos_source[j].v.photo_files, K)}) = 1

\* a record can be applied to tree t: what it renames or deletes exists, a
\* Rename's target does not, the directory a record writes into exists
Applicable(t, task) ==
    IF task.op = "rename"
    THEN Exists(t, task.path) /\ ~Exists(t, task.arg) /\ IsDir(t, Parent(task.arg))
    ELSE IF task.op = "delete" THEN Exists(t, task.path)
    ELSE IF task.op = "create" THEN IsDir(t, Parent(task.path))
    ELSE TRUE

\* every record of the ledger is applicable at its turn, starting from t
Replayable(t, ledger) ==
    ForEach(LAMBDA st, task :
                [ok |-> st.ok /\ Applicable(st.fs, task),
                 fs |-> exec_task(st.fs, task).fs],
            [ok |-> TRUE, fs |-> t], ledger).ok

\* C10: replayed in order against the tree as it was scanned, every record of
\* a ledger optimize_takeout returns is applicable at its turn.
C10_LedgerReplays ==
    pc = "execute_task_ledger" => Replayable(TreeOf(disk), task_ledger)

====
